---------------------------- MODULE Spec2Model ----------------------------
(***************************************************************************)
(* The package signature verifier of the recovery (verifier.c).            *)
(*                                                                         *)
(* Two entry points are modelled, each as its own specification:           *)
(*   SpecFile  verify_file: the whole-file signature carried in the ZIP    *)
(*             comment (footer, EOCD tail, hashing loop, RSA check);       *)
(*   SpecJar   verify_jar_signature: the .RSA -> .SF -> MANIFEST.MF ->     *)
(*             entries chain (verifySignature, verifyManifest,             *)
(*             verifyArchive).                                             *)
(*                                                                         *)
(* SHA-1, RSA, the base64 decoder and the ZIP reader are libraries outside *)
(* verifier.c. A digest is an abstract value; RSA_verify is decided by the *)
(* signer, the signature bytes and the digest the input records; the ZIP   *)
(* reader hands out the entries of the input archive.                      *)
(***************************************************************************)
EXTENDS Integers, Sequences, FiniteSets, TLC

VARIABLES
    \* ---- verify_file ----
    file,             \* the file at `path`: length, 6 trailing bytes, EOCD markers, signature oracle
    keys,             \* pKeys[0..numKeys-1]
    pc,               \* position in the running call
    result,           \* value returned ("none" while running)
    why,              \* the LOGE/LOGW branch that ended the call
    progress,         \* values passed to ui_set_progress, in order
    f,                \* FILE* f is open
    fpos,             \* file position of f
    eocd,             \* the eocd buffer is allocated
    buffer,           \* the hashing buffer is allocated
    comment_size,
    signature_start,
    eocd_size,
    signed_len,
    so_far,
    frac,             \* last reported so_far (-1: the initial frac = -1.0)
    ctx,              \* SHA_CTX: bytes fed, and whether they are file bytes [0, len)
    shortRead,        \* some fread returned fewer bytes than requested
    rsaOff,           \* tail offsets handed to RSA_verify (empty: never called)
    \* ---- verify_jar_signature ----
    archive,          \* the open ZipArchive: its entries in index order
    sfEntry,          \* index of the verified .SF entry (0: NULL)
    mfEntry,          \* index of the verified manifest entry (0: NULL)
    unverified,       \* bool *unverified
    marked,           \* the flags as verifyArchive first set them
    totalBytes,
    doneBytes,
    name,             \* char *name: <<>> is NULL, <<s>> the string s
    line,             \* char *line of the manifest loop: <<>> is NULL
    nLines,           \* manifest lines handed out by strtok_r so far
    stanzas,          \* per entry: SHA1-Digest lines whose pending name resolved to it
    hashed,           \* per entry: runs of digestEntry that count toward doneBytes
    matched,          \* per entry: the decoded digests that compared equal to its SHA-1
    stray             \* a SHA1-Digest line named no entry, a corrupt one or one not flagged

fvars == <<file, keys, pc, result, why, progress, f, fpos, eocd, buffer,
           comment_size, signature_start, eocd_size, signed_len, so_far,
           frac, ctx, shortRead, rsaOff>>
jvars == <<archive, sfEntry, mfEntry, unverified, marked, totalBytes,
           doneBytes, name, line, nLines, stanzas, hashed, matched, stray>>
vars == <<fvars, jvars>>

---------------------------------------------------------------------------
(* Program constants *)

RSANUMBYTES == 256
SHA_DIGEST_SIZE == 20
FOOTER_SIZE == 6
EOCD_HEADER_SIZE == 22
BUFFER_SIZE == 4096

VERIFY_SUCCESS == "VERIFY_SUCCESS"
VERIFY_FAILURE == "VERIFY_FAILURE"

(* Bounds of the model *)

\* the longest signed range, in hashing buffers
MaxChunks == 52
\* the longest manifest, in lines
MaxLines == 5

Min(a, b) == IF a < b THEN a ELSE b


---------------------------------------------------------------------------
(* The libraries: SHA-1 and RSA *)

\* SHA_init: nothing hashed yet.
SHA_init == [len |-> 0, prefix |-> TRUE]

\* SHA_update with `size` bytes read at file offset `at`: the context stays
\* the hash of a file prefix only while each block continues the last one.
SHA_update(c, at, size) ==
    [len |-> c.len + size, prefix |-> c.prefix /\ at = c.len]

\* RSA_verify(key, sig, RSANUMBYTES, digest): the signature bytes `sig` were
\* made by `sig.key` over `sig.over` (key 0: the bytes are no signature).
RSA_verify(key, sig, digest) == sig.key = key /\ sig.over = digest

---------------------------------------------------------------------------
(* verify_file: the input file *)

\* $50 $4b $05 $06
Magic == <<80, 75, 5, 6>>

\* Byte `o` of the file: the six trailing bytes are fl.foot, a marker
\* $50 $4b $05 $06 starts at each offset of fl.marks, every other byte is 0.
Byte(fl, o) ==
    IF o >= fl.len - FOOTER_SIZE
    THEN fl.foot[o - (fl.len - FOOTER_SIZE) + 1]
    ELSE IF \E m \in fl.marks : m <= o /\ o <= m + 3
         THEN Magic[o - (CHOOSE m \in fl.marks : m <= o /\ o <= m + 3) + 1]
         ELSE 0

\* The RSANUMBYTES bytes at file offset `at`, as RSA_verify sees them.
SigBytes(fl, at) ==
    IF fl.sig.key # 0 /\ fl.sig.at = at
    THEN [key |-> fl.sig.key, over |-> [len |-> fl.sig.over, prefix |-> TRUE]]
    ELSE [key |-> 0, over |-> [len |-> 0, prefix |-> FALSE]]

\* unsigned char footer[FOOTER_SIZE], read at fseek(f, -FOOTER_SIZE, SEEK_END)
footer(i) == Byte(file, file.len - FOOTER_SIZE + i)

\* footer[4] + (footer[5] << 8)
CommentSize == footer(4) + footer(5) * 256

\* footer[0] + (footer[1] << 8)
SignatureStart == footer(0) + footer(1) * 256

\* eocd[i], the buffer read at fseek(f, -eocd_size, SEEK_END)
EocdByte(size, i) == Byte(file, file.len - size + i)

\* eocd[i..i+3] is $50 $4b $05 $06
MarkerAt(size, i) == \A k \in 0..3 : EocdByte(size, i + k) = Magic[k + 1]

\* the scan begun one byte late
HostileScan_From5(size) == \E i \in 5..(size - 3 - 1) : MarkerAt(size, i)

\* for (i = 4; i < eocd_size-3; ++i) if (eocd[i..i+3] is the marker) fail
HostileScan(size) == \E i \in 4..(size - 3 - 1) : MarkerAt(size, i)

\* the signed range taken to the end of the EOCD header
SignedLen_WholeHeader(pos) == pos + EOCD_HEADER_SIZE

\* signed_len = ftell(f) + EOCD_HEADER_SIZE - 2
SignedLen(pos) == pos + EOCD_HEADER_SIZE - 2

\* eocd + eocd_size - 6 - RSANUMBYTES, as an offset into eocd
SigOffset(size) == size - 6 - RSANUMBYTES

\* the report made every 0.05 of the range
Report_Step5(so, size, last, tie) ==
    \/ last < 0
    \/ 20 * (so - last) > signed_len
    \/ size = so

\* f > frac + 0.02 || size == so_far, with f = so / signed_len and frac the
\* last reported so_far / signed_len (or -1.0). The comparison is made in
\* double arithmetic: where the exact values tie, rounding decides, and
\* `tie` stands for either outcome.
Report(so, size, last, tie) ==
    \/ last < 0
    \/ 50 * (so - last) > signed_len
    \/ 50 * (so - last) = signed_len /\ tie
    \/ size = so

---------------------------------------------------------------------------
(* verify_file: the call *)

\* return r, after the branch `w`
Return(r, w) == pc' = "done" /\ result' = r /\ why' = w

\* ui_set_progress(0.0); f = fopen(path, "rb")
VF_Open ==
    /\ pc = "open"
    /\ progress' = Append(progress, <<0, 1>>)
    /\ \E opened \in BOOLEAN :
         IF opened
         THEN f' = TRUE /\ pc' = "footer" /\ UNCHANGED <<result, why>>
         ELSE f' = FALSE /\ Return(VERIFY_FAILURE, "failed to open")
    /\ UNCHANGED <<file, keys, fpos, eocd, buffer, comment_size,
                   signature_start, eocd_size, signed_len, so_far, frac,
                   ctx, shortRead, rsaOff>>
    /\ UNCHANGED jvars

\* The footer: seek, read, the $ff $ff sentinel, the two lengths.
VF_ReadFooter ==
    /\ pc = "footer"
    /\ IF file.len < FOOTER_SIZE
       THEN \* fseek(f, -FOOTER_SIZE, SEEK_END) != 0
            /\ f' = FALSE
            /\ Return(VERIFY_FAILURE, "failed to seek")
            /\ UNCHANGED <<fpos, shortRead, comment_size, signature_start>>
       ELSE \E got \in {FOOTER_SIZE - 1, FOOTER_SIZE} :
              IF got # FOOTER_SIZE
              THEN /\ f' = FALSE
                   /\ shortRead' = TRUE
                   /\ fpos' = file.len - FOOTER_SIZE + got
                   /\ Return(VERIFY_FAILURE, "failed to read footer")
                   /\ UNCHANGED <<comment_size, signature_start>>
              ELSE /\ fpos' = file.len
                   /\ UNCHANGED shortRead
                   /\ IF footer(2) # 255 \/ footer(3) # 255
                      THEN /\ f' = FALSE
                           /\ Return(VERIFY_FAILURE, "no sentinel")
                           /\ UNCHANGED <<comment_size, signature_start>>
                      ELSE /\ comment_size' = CommentSize
                           /\ signature_start' = SignatureStart
                           /\ IF SignatureStart - FOOTER_SIZE < RSANUMBYTES
                              THEN /\ f' = FALSE
                                   /\ Return(VERIFY_FAILURE, "signature is too short")
                              ELSE /\ f' = TRUE
                                   /\ pc' = "eocd"
                                   /\ UNCHANGED <<result, why>>
    /\ UNCHANGED <<file, keys, progress, eocd, buffer, eocd_size, signed_len,
                   so_far, frac, ctx, rsaOff>>
    /\ UNCHANGED jvars

\* The EOCD tail: seek, signed_len, malloc, read, the marker at its start,
\* the scan for a later marker, the hashing buffer.
VF_ReadEocd ==
    /\ pc = "eocd"
    /\ LET size == comment_size + EOCD_HEADER_SIZE
           start == file.len - size
           marker == MarkerAt(size, 0)
           hostile == HostileScan(size)
       IN
       /\ eocd_size' = size
       /\ IF size > file.len
          THEN \* fseek(f, -eocd_size, SEEK_END) != 0
               /\ f' = FALSE
               /\ Return(VERIFY_FAILURE, "failed to seek")
               /\ UNCHANGED <<fpos, signed_len, eocd, buffer, shortRead,
                              so_far, frac, ctx>>
          ELSE /\ signed_len' = SignedLen(start)
               /\ \E alloc1 \in BOOLEAN, got \in {size - 1, size},
                     alloc2 \in BOOLEAN :
                    IF ~alloc1
                    THEN /\ f' = FALSE
                         /\ fpos' = start
                         /\ Return(VERIFY_FAILURE, "malloc for EOCD record failed")
                         /\ UNCHANGED <<eocd, buffer, shortRead, so_far, frac, ctx>>
                    ELSE IF got # size
                    THEN /\ f' = FALSE
                         /\ fpos' = start + got
                         /\ eocd' = TRUE
                         /\ shortRead' = TRUE
                         /\ Return(VERIFY_FAILURE, "failed to read eocd")
                         /\ UNCHANGED <<buffer, so_far, frac, ctx>>
                    ELSE /\ fpos' = IF ~marker \/ hostile \/ ~alloc2
                                    THEN file.len ELSE 0
                         /\ eocd' = TRUE
                         /\ UNCHANGED shortRead
                         /\ IF ~marker
                            THEN /\ f' = FALSE
                                 /\ Return(VERIFY_FAILURE, "signature length doesn't match EOCD marker")
                                 /\ UNCHANGED <<buffer, so_far, frac, ctx>>
                            ELSE IF hostile
                            THEN /\ f' = FALSE
                                 /\ Return(VERIFY_FAILURE, "EOCD marker occurs after start of EOCD")
                                 /\ UNCHANGED <<buffer, so_far, frac, ctx>>
                            ELSE IF ~alloc2
                            THEN /\ f' = FALSE
                                 /\ Return(VERIFY_FAILURE, "failed to alloc memory for sha1 buffer")
                                 /\ UNCHANGED <<buffer, so_far, frac, ctx>>
                            ELSE /\ f' = TRUE
                                 /\ buffer' = TRUE
                                 /\ ctx' = SHA_init
                                 /\ frac' = -1
                                 /\ so_far' = 0
                                 /\ pc' = "hash"
                                 /\ UNCHANGED <<result, why>>
    /\ UNCHANGED <<file, keys, progress, comment_size, signature_start, rsaOff>>
    /\ UNCHANGED jvars

\* One pass of while (so_far < signed_len)
VF_HashChunk ==
    /\ pc = "hash"
    /\ so_far < signed_len
    /\ LET size == Min(BUFFER_SIZE, signed_len - so_far)
       IN \E got \in {size - 1, size}, tie \in BOOLEAN :
            IF got # size
            THEN /\ f' = FALSE
                 /\ fpos' = fpos + got
                 /\ shortRead' = TRUE
                 /\ Return(VERIFY_FAILURE, "failed to read data")
                 /\ UNCHANGED <<ctx, so_far, frac, progress>>
            ELSE /\ fpos' = fpos + size
                 /\ ctx' = SHA_update(ctx, fpos, size)
                 /\ so_far' = so_far + size
                 /\ IF Report(so_far + size, size, frac, tie)
                    THEN /\ progress' = Append(progress, <<so_far + size, signed_len>>)
                         /\ frac' = so_far + size
                    ELSE UNCHANGED <<progress, frac>>
                 /\ UNCHANGED <<f, shortRead, pc, result, why>>
    /\ UNCHANGED <<file, keys, eocd, buffer, comment_size, signature_start,
                   eocd_size, signed_len, rsaOff>>
    /\ UNCHANGED jvars

\* After the loop: fclose, free(buffer), SHA_final, RSA_verify with each key
\* on eocd + eocd_size - 6 - RSANUMBYTES. An offset below 0 reads memory
\* before the eocd buffer: what RSA_verify then answers is `wild`.
VF_Verify ==
    /\ pc = "hash"
    /\ ~(so_far < signed_len)
    /\ f' = FALSE
    /\ buffer' = FALSE
    /\ eocd' = FALSE
    /\ rsaOff' = IF Len(keys) > 0 THEN {SigOffset(eocd_size)} ELSE {}
    /\ \E wild \in BOOLEAN :
         LET off == SigOffset(eocd_size)
             sig == SigBytes(file, file.len - eocd_size + off)
             verified == \E i \in 1..Len(keys) :
                            IF off >= 0 THEN RSA_verify(keys[i], sig, ctx)
                                        ELSE wild
         IN IF verified
            THEN Return(VERIFY_SUCCESS, "whole-file signature verified")
            ELSE Return(VERIFY_FAILURE, "failed to verify whole-file signature")
    /\ UNCHANGED <<file, keys, progress, fpos, comment_size, signature_start,
                   eocd_size, signed_len, so_far, frac, ctx, shortRead>>
    /\ UNCHANGED jvars

---------------------------------------------------------------------------
(* verify_file: the files and key sets the call is run on *)

\* lengths below FOOTER_SIZE + EOCD_HEADER_SIZE, and the first one not below
SmallLens == {0, 5, 6, 21, 22, 27, 28}

\* comment lengths a footer may state
CommentLens == {0, 239, 240, 300}

\* signature starts a footer may state (1541 = $0605)
SigStarts == {261, 262, 300, 1541, 65535}

\* lengths of the signed range of a well-formed file
SignedLens == {20, 300, BUFFER_SIZE, 2 * BUFFER_SIZE + 100,
               MaxChunks * BUFFER_SIZE + 7}

Foot(ss, sentinel, c) ==
    <<ss % 256, ss \div 256, 255, sentinel, c % 256, c \div 256>>

\* marker placements, given where the footer says the EOCD record starts
MarkSets(len, c) ==
    LET e == len - (c + EOCD_HEADER_SIZE)
    IN {{}, {e}, {e, e + 4}, {e, len - 8}, {e, e + 11 + (c \div 2)}}

\* what the file's signature block holds: nothing, or a signature by `key`
\* found at offset `at` over the file's first `over` bytes
Sigs(len, ss, c) ==
    {[key |-> 0, at |-> 0, over |-> 0],
     [key |-> 1, at |-> len - FOOTER_SIZE - RSANUMBYTES, over |-> len - c - 2],
     [key |-> 1, at |-> len - ss, over |-> len - c - 2],
     [key |-> 1, at |-> len - FOOTER_SIZE - RSANUMBYTES, over |-> len - c],
     [key |-> 3, at |-> len - FOOTER_SIZE - RSANUMBYTES, over |-> len - c - 2]}

FilesWith(lens, starts, sentinels, comments) ==
    UNION {UNION {UNION {UNION {
        {[len |-> len, foot |-> Foot(ss, st, c), marks |-> m, sig |-> sg] :
            m \in MarkSets(len, c), sg \in Sigs(len, ss, c)}
        : c \in comments} : st \in sentinels} : ss \in starts} : len \in lens}

\* Well-formed lengths with the footer that fits them; short and ill-fitting
\* lengths with every footer; a footer without the $ff $ff sentinel; the
\* longest comment.
Files ==
    UNION {FilesWith({s + c + 2}, SigStarts, {255}, {c}) :
              s \in SignedLens, c \in CommentLens}
    \cup FilesWith(SmallLens \cup {300 + 240 + 2}, SigStarts, {255}, CommentLens)
    \cup FilesWith({28, 300 + 240 + 2}, {262}, {254}, {0, 240})
    \cup {fl \in FilesWith({20 + 65535 + 2}, {262}, {255}, {65535}) :
              fl.sig.key # 3}

KeySets == {<<>>, <<2, 1>>}

JarIdle ==
    /\ archive = <<>>
    /\ sfEntry = 0
    /\ mfEntry = 0
    /\ unverified = <<>>
    /\ marked = <<>>
    /\ totalBytes = <<0, 0>>
    /\ doneBytes = <<0, 0>>
    /\ name = <<>>
    /\ line = <<>>
    /\ nLines = 0
    /\ stanzas = <<>>
    /\ hashed = <<>>
    /\ matched = <<>>
    /\ stray = FALSE

InitFile ==
    /\ file \in Files
    /\ keys \in KeySets
    /\ pc = "open"
    /\ result = "none"
    /\ why = "none"
    /\ progress = <<>>
    /\ f = FALSE
    /\ fpos = 0
    /\ eocd = FALSE
    /\ buffer = FALSE
    /\ comment_size = -1
    /\ signature_start = -1
    /\ eocd_size = 0
    /\ signed_len = 0
    /\ so_far = 0
    /\ frac = -1
    /\ ctx = SHA_init
    /\ shortRead = FALSE
    /\ rsaOff = {}
    /\ JarIdle

NextFile ==
    \/ VF_Open
    \/ VF_ReadFooter
    \/ VF_ReadEocd
    \/ VF_HashChunk
    \/ VF_Verify

SpecFile == InitFile /\ [][NextFile]_vars

---------------------------------------------------------------------------
(* verify_file: what the claims speak of, read off the file itself *)

\* the comment length stated by the file's last two bytes
TailComment == Byte(file, file.len - 2) + 256 * Byte(file, file.len - 1)

\* the length of the file's trailing (commentLen + 22)-byte tail
TailSize == TailComment + 22

\* the tail holds 50 4B 05 06 at some tail offset in 4 .. TailSize - 4
HostileTail ==
    /\ file.len >= TailSize
    /\ \E o \in 4..(TailSize - 4) :
         /\ Byte(file, file.len - TailSize + o) = 80
         /\ Byte(file, file.len - TailSize + o + 1) = 75
         /\ Byte(file, file.len - TailSize + o + 2) = 5
         /\ Byte(file, file.len - TailSize + o + 3) = 6

\* a key of the key set signed the prefix the footer delimits, and the
\* signature sits in the last RSANUMBYTES bytes before the footer
ValidlySigned ==
    /\ \E i \in 1..Len(keys) : keys[i] = file.sig.key
    /\ file.sig.at = file.len - 6 - 256
    /\ file.sig.over = file.len - TailComment - 2

\* the call got as far as the hashing loop
ReachedHashing ==
    \/ pc = "hash"
    \/ why \in {"failed to read data", "whole-file signature verified",
                "failed to verify whole-file signature"}

\* the call got past the hashing loop
HashedAll ==
    why \in {"whole-file signature verified",
             "failed to verify whole-file signature"}

(* C2: a file whose (commentLen + 22)-byte tail holds 50 4B 05 06 at a tail
   offset from 4 to eocd_size - 4 is answered VERIFY_FAILURE, whatever RSA
   verification would say of its signature. *)
C2_HostileEocdRejected ==
    pc = "done" => (result = VERIFY_FAILURE \/ ~HostileTail)

\* a validly signed file is turned down by the scan for a later marker
C2_Witness ==
    /\ pc = "done"
    /\ HostileTail
    /\ ValidlySigned
    /\ why = "EOCD marker occurs after start of EOCD"
    /\ result = VERIFY_FAILURE

(* C4: in a call that reaches hashing, the bytes put through SHA-1 are file
   bytes [0, signedLen), signedLen = fileLen - commentLen - 2: never the
   comment-length field, a comment byte or the file's last two bytes. *)
C4_SignedRange ==
    ReachedHashing =>
        LET signedLen == file.len - TailComment - 2
        IN /\ ctx.prefix
           /\ ctx.len <= signedLen
           /\ ctx.len <= file.len - 2
           /\ signed_len = signedLen
           /\ HashedAll => ctx.len = signedLen

\* a file with a comment is hashed in several buffers up to signedLen
C4_Witness ==
    /\ HashedAll
    /\ TailComment = 300
    /\ ctx.len = 2 * 4096 + 100
    /\ ctx.len = file.len - 302

(* C5: the RSANUMBYTES bytes handed to RSA_verify start at file offset
   fileLen - sigStart, which is tail offset eocd_size - 6 - RSANUMBYTES, and
   lie inside the (commentLen + 22)-byte tail buffer. *)
C5_SignatureRange ==
    \A off \in rsaOff :
        /\ file.len - signature_start = (file.len - TailSize) + off
        /\ off >= 0
        /\ off + 256 <= TailSize

(* C8: a file shorter than 28 bytes, a file with commentLen + 22 > fileLen
   and a call in which a read came short are answered VERIFY_FAILURE without
   reaching RSA verification. *)
C8_ShortInputsFail ==
    (/\ pc = "done"
     /\ \/ file.len < 28
        \/ TailComment + 22 > file.len
        \/ shortRead)
    => (result = VERIFY_FAILURE /\ rsaOff = {})

(* C10 as claimed: after a chunk the value is reported whenever the fraction
   has advanced by at least 0.02 since the last report, and after the final
   chunk, so a call that hashed the whole range ends on the completed
   fraction. *)
C10_ReportedOnCompletion ==
    (ReachedHashing /\ so_far > 0) =>
        /\ frac = so_far \/ 50 * (so_far - frac) < signed_len
        /\ HashedAll => /\ frac = so_far
                        /\ progress[Len(progress)] = <<signed_len, signed_len>>

(* C10, amended: the first chunk is reported, and a later chunk when the
   fraction exceeds the last report by more than 0.02; what is hashed and not
   yet reported never exceeds 0.02 of the range, so a call that hashed the
   whole range ends on a reported fraction of at least 0.98. *)
C10_ReportedWithinStep ==
    (ReachedHashing /\ so_far > 0) =>
        /\ 0 < frac /\ frac <= so_far
        /\ so_far <= 4096 => frac = so_far
        /\ 50 * (so_far - frac) <= signed_len
        /\ progress[Len(progress)] = <<frac, signed_len>>
        /\ HashedAll => 50 * frac >= 49 * signed_len

\* a verified file whose final chunk went unreported
C10_Witness ==
    /\ result = VERIFY_SUCCESS
    /\ so_far = signed_len
    /\ frac < so_far
    /\ progress[Len(progress)] = <<frac, signed_len>>

---------------------------------------------------------------------------
(* The libraries: C strings, base64, 32-bit unsigned arithmetic, the ZIP
   reader *)

UpperCase == "ABCDEFGHIJKLMNOPQRSTUVWXYZ"
LowerCase == "abcdefghijklmnopqrstuvwxyz"

\* tolower() of the one-character string c
tolower(c) ==
    IF \E i \in 1..26 : SubSeq(UpperCase, i, i) = c
    THEN LET i == CHOOSE i \in 1..26 : SubSeq(UpperCase, i, i) = c
         IN SubSeq(LowerCase, i, i)
    ELSE c

RECURSIVE LowerStr(_)
LowerStr(s) ==
    IF Len(s) = 0 THEN ""
    ELSE tolower(SubSeq(s, 1, 1)) \o LowerStr(SubSeq(s, 2, Len(s)))

\* strncmp(s, t, n) == 0, for NUL-terminated s and t
strncmp0(s, t, n) ==
    SubSeq(s, 1, Min(n, Len(s))) = SubSeq(t, 1, Min(n, Len(t)))

\* strncasecmp(s, t, n) == 0, for NUL-terminated s and t
strncasecmp0(s, t, n) ==
    LowerStr(SubSeq(s, 1, Min(n, Len(s)))) = LowerStr(SubSeq(t, 1, Min(n, Len(t))))

\* the last n characters of s (all of s when it is shorter)
Suffix(s, n) == SubSeq(s, IF Len(s) > n THEN Len(s) - n + 1 ELSE 1, Len(s))

\* s + n
Skip(s, n) == SubSeq(s, n + 1, Len(s))

\* b64_pton(text, target, SHA_DIGEST_SIZE + 3): the number of bytes decoded
\* (-1 for text that is not base64) and the digest they spell. "B64" \o d
\* is the base64 text of the 20-byte digest d; "B64short" decodes to 19 bytes.
b64_pton(text) ==
    IF text = "B64short" THEN [n |-> 19, bytes |-> "short"]
    ELSE IF Len(text) > 3 /\ SubSeq(text, 1, 3) = "B64"
         THEN [n |-> 20, bytes |-> Skip(text, 3)]
         ELSE [n |-> -1, bytes |-> ""]

\* An `unsigned` is kept as <<high 16 bits, low 16 bits>>.
U32(n) == <<n \div 65536, n % 65536>>

\* a + b in 32-bit unsigned arithmetic
AddU32(a, b) ==
    LET lo == a[2] + b[2]
        hi == a[1] + b[1] + (lo \div 65536)
    IN <<hi % 65536, lo % 65536>>

LeqU32(a, b) == a[1] < b[1] \/ (a[1] = b[1] /\ a[2] <= b[2])

\* mzZipEntryCount
mzZipEntryCount == Len(archive)

\* mzFindZipEntry: the index of the entry with this name, 0 for NULL
mzFindZipEntry(nm) ==
    IF \E i \in 1..Len(archive) : archive[i].name = nm
    THEN CHOOSE i \in 1..Len(archive) :
            /\ archive[i].name = nm
            /\ \A j \in 1..(i - 1) : archive[j].name # nm
    ELSE 0

\* mzIsZipEntryIntact
mzIsZipEntryIntact(i) == archive[i].intact

\* mzProcessZipEntryContents hands the entry's bytes to the callback in
\* pieces: here two halves, and only the first when the entry cannot be
\* read to its end.
Pieces(i) ==
    LET len == archive[i].len
        all == IF len = 0 THEN <<>>
               ELSE IF len = 1 THEN <<1>>
               ELSE <<len - (len \div 2), len \div 2>>
    IN IF archive[i].readable THEN all ELSE SubSeq(all, 1, Min(1, Len(all)))

---------------------------------------------------------------------------
(* verify_jar_signature: slurpEntry, digestEntry, verifySignature,
   verifyManifest *)

\* slurpEntry(pArchive, pEntry) != NULL; `mem`: malloc succeeds
slurpEntry(i, mem) ==
    /\ mzIsZipEntryIntact(i)
    /\ mem
    /\ archive[i].readable

\* digestEntry(pArchive, pEntry, NULL, 0, digest) succeeds
digestEntry(i) == archive[i].readable

\* sizeof(prefix), prefix[] = "META-INF/"
SizeofPrefix == 10

\* the test that makes entry i a signature block to try
IsSignatureBlock(i) ==
    LET rsaName == archive[i].name
        rsaLen == archive[i].len
    IN /\ rsaLen >= RSANUMBYTES
       /\ Len(rsaName) > SizeofPrefix
       /\ strncmp0(rsaName, "META-INF/", SizeofPrefix - 1)
       /\ strncmp0(Skip(rsaName, Len(rsaName) - 5 + 1), ".RSA", 5 - 1)

\* Replace .RSA with .SF
SfName(rsaName) == SubSeq(rsaName, 1, Len(rsaName) - 5 + 1) \o ".SF"

\* one pass of the loop over the entries returns the .SF entry
SignedBy(i, mem) ==
    /\ IsSignatureBlock(i)
    /\ mem
    /\ mzFindZipEntry(SfName(archive[i].name)) # 0
    /\ digestEntry(mzFindZipEntry(SfName(archive[i].name)))
    /\ slurpEntry(i, mem)
    /\ \E j \in 1..Len(keys) :
          RSA_verify(keys[j], archive[i].sig,
                     archive[mzFindZipEntry(SfName(archive[i].name))].hash)

\* verifySignature: the .SF entry of the first .RSA entry, in index order,
\* that some key verifies; 0 for NULL
verifySignature(mem) ==
    IF \E i \in 1..mzZipEntryCount : SignedBy(i, mem)
    THEN LET i == CHOOSE i \in 1..mzZipEntryCount :
                     /\ SignedBy(i, mem)
                     /\ \A k \in 1..(i - 1) : ~SignedBy(k, mem)
         IN mzFindZipEntry(SfName(archive[i].name))
    ELSE 0

\* the first line of the .SF file that begins "SHA1-Digest-Manifest: "
\* (0: none)
DigestManifestLine(lines) ==
    IF \E k \in 1..Len(lines) : strncasecmp0("SHA1-Digest-Manifest: ", lines[k], 22)
    THEN CHOOSE k \in 1..Len(lines) :
            /\ strncasecmp0("SHA1-Digest-Manifest: ", lines[k], 22)
            /\ \A m \in 1..(k - 1) :
                  ~strncasecmp0("SHA1-Digest-Manifest: ", lines[m], 22)
    ELSE 0

\* the comparison left out
SameDigest_Always(expected, actual) == TRUE

\* memcmp(expected, actual, SHA_DIGEST_SIZE) == 0
SameDigest(expected, actual) == expected = actual

\* verifyManifest: the manifest entry (0 for NULL) and the message logged
verifyManifest(sf, mem) ==
    IF ~slurpEntry(sf, mem)
    THEN [entry |-> 0, why |-> "Invalid signature file"]
    ELSE LET lines == archive[sf].lines
             k == DigestManifestLine(lines)
             got == b64_pton(Skip(lines[k], 22))
             mf == mzFindZipEntry("META-INF/MANIFEST.MF")
         IN IF k = 0 \/ got.n # SHA_DIGEST_SIZE
            THEN [entry |-> 0, why |-> "No digest manifest in signature file"]
            ELSE IF mf = 0
            THEN [entry |-> 0, why |-> "No manifest file"]
            ELSE IF ~digestEntry(mf)
            THEN [entry |-> 0, why |-> "Can't digest"]
            ELSE IF ~SameDigest(got.bytes, archive[mf].hash)
            THEN [entry |-> 0, why |-> "Wrong digest for manifest"]
            ELSE [entry |-> mf, why |-> "Verified manifest"]

\* const ZipEntry *sfEntry = verifySignature(pArchive, pKeys, numKeys);
\* if (sfEntry == NULL) return false;
VJ_VerifySignature ==
    /\ pc = "sig"
    /\ \E mem \in BOOLEAN :
         /\ sfEntry' = verifySignature(mem)
         /\ IF verifySignature(mem) = 0
            THEN Return("false", "No signature")
            ELSE pc' = "manifest" /\ UNCHANGED <<result, why>>
    /\ UNCHANGED <<archive, keys, progress, mfEntry, unverified, marked,
                   totalBytes, doneBytes, name, line, nLines, stanzas,
                   hashed, matched, stray>>
    /\ UNCHANGED <<file, f, fpos, eocd, buffer, comment_size,
                   signature_start, eocd_size, signed_len, so_far, frac,
                   ctx, shortRead, rsaOff>>

\* const ZipEntry *mfEntry = verifyManifest(pArchive, sfEntry);
\* if (mfEntry == NULL) return false;
VJ_VerifyManifest ==
    /\ pc = "manifest"
    /\ \E mem \in BOOLEAN :
         LET r == verifyManifest(sfEntry, mem)
         IN /\ mfEntry' = r.entry
            /\ IF r.entry = 0
               THEN Return("false", r.why)
               ELSE pc' = "archive" /\ UNCHANGED <<result, why>>
    /\ UNCHANGED <<archive, keys, progress, sfEntry, unverified, marked,
                   totalBytes, doneBytes, name, line, nLines, stanzas,
                   hashed, matched, stray>>
    /\ UNCHANGED <<file, f, fpos, eocd, buffer, comment_size,
                   signature_start, eocd_size, signed_len, so_far, frac,
                   ctx, shortRead, rsaOff>>

---------------------------------------------------------------------------
(* verify_jar_signature: verifyArchive *)

\* Don't validate: directories, the manifest, *.RSA, and *.SF.
Skipped(i, mf) ==
    LET fn == archive[i].name
        len == archive[i].len
    IN \/ i = mf
       \/ Len(fn) > 0 /\ Suffix(fn, 1) = "/" /\ len = 0
       \/ /\ strncasecmp0(fn, "META-INF/", 9)
          /\ \/ strncasecmp0(Skip(fn, Len(fn) - 4), ".RSA", 4)
             \/ strncasecmp0(Skip(fn, Len(fn) - 3), ".SF", 3)

\* unverified[] after the marking loop
Marks(mf) == [i \in 1..mzZipEntryCount |-> ~Skipped(i, mf)]

\* totalBytes after the marking loop, over entries 1..n
RECURSIVE TotalBytes(_, _)
TotalBytes(flags, n) ==
    IF n = 0 THEN U32(0)
    ELSE IF flags[n] THEN AddU32(TotalBytes(flags, n - 1), U32(archive[n].len))
         ELSE TotalBytes(flags, n - 1)

\* updateHash over the pieces of an entry: *doneBytes += dataLen and, when
\* totalBytes > 0, ui_set_progress(*doneBytes * 1.0 / totalBytes)
RECURSIVE updateHash(_, _, _)
updateHash(done, total, pieces) ==
    IF pieces = <<>> THEN [done |-> done, reports |-> <<>>]
    ELSE LET now == AddU32(done, U32(Head(pieces)))
             rest == updateHash(now, total, Tail(pieces))
         IN [done |-> rest.done,
             reports |-> IF total # U32(0)
                         THEN <<(<<now, total>>)>> \o rest.reports
                         ELSE rest.reports]

\* the tests without the one of unverified[]
RefusedStanza_NoFlagTest(entry, flags) ==
    IF entry = 0 THEN "Missing file"
    ELSE IF ~mzIsZipEntryIntact(entry) THEN "Corrupt file"
    ELSE "ok"

\* the branch of a "SHA1-Digest: " line that refuses the named entry, if any
RefusedStanza(entry, flags) ==
    IF entry = 0 THEN "Missing file"
    ELSE IF ~mzIsZipEntryIntact(entry) THEN "Corrupt file"
    ELSE IF ~flags[entry] THEN "Unexpected file"
    ELSE "ok"

\* for (i = 0; i < mzZipEntryCount(pArchive) && !unverified[i]; ++i) ;
\* as a 1-based index: mzZipEntryCount + 1 when no flag is set
FirstUnverified(flags) ==
    IF \E i \in 1..Len(flags) : flags[i]
    THEN CHOOSE i \in 1..Len(flags) :
            flags[i] /\ \A j \in 1..(i - 1) : ~flags[j]
    ELSE Len(flags) + 1

\* the value verifyArchive returns after the loop, ignoring the flags
ArchiveVerdict_NoCoverage(lineLeft, flags) ==
    IF lineLeft # <<>> THEN "false" ELSE "true"

\* the value verifyArchive returns after the loop
ArchiveVerdict(lineLeft, flags) ==
    IF lineLeft # <<>> THEN "false"
    ELSE IF FirstUnverified(flags) <= Len(flags) THEN "false"
    ELSE "true"

\* lines strtok_r may hand out of a manifest
ManifestLines ==
    {"Name: a", " b", "SHA1-Digest: B64ha", "SHA1-Digest: B64hab",
     "SHA1-Digest: B64short", "Created-By: 1.0", "Name: d/",
     "name: META-INF/C.SF", "Name: zz"}

\* slurp the manifest, calloc the flags, mark what is to be verified
VA_Start ==
    /\ pc = "archive"
    /\ \E mem \in BOOLEAN :
         IF ~slurpEntry(mfEntry, mem)
         THEN /\ Return("false", "Invalid manifest")
              /\ UNCHANGED <<unverified, marked, totalBytes, doneBytes, stanzas,
                             hashed, matched>>
         ELSE /\ unverified' = Marks(mfEntry)
              /\ marked' = Marks(mfEntry)
              /\ totalBytes' = TotalBytes(Marks(mfEntry), mzZipEntryCount)
              /\ doneBytes' = U32(0)
              /\ stanzas' = [i \in 1..mzZipEntryCount |-> 0]
              /\ hashed' = [i \in 1..mzZipEntryCount |-> 0]
              /\ matched' = [i \in 1..mzZipEntryCount |-> {}]
              /\ pc' = "lines"
              /\ UNCHANGED <<result, why>>
    /\ UNCHANGED <<archive, keys, progress, sfEntry, mfEntry, name, line,
                   nLines, stray>>
    /\ UNCHANGED <<file, f, fpos, eocd, buffer, comment_size,
                   signature_start, eocd_size, signed_len, so_far, frac,
                   ctx, shortRead, rsaOff>>

\* break: leave the loop with line != NULL
Break(w) == pc' = "finish" /\ why' = w

\* "Name:" introducing a new stanza
NameLine(l) ==
    /\ \E mem \in BOOLEAN :
         IF name # <<>>
         THEN Break("No digest") /\ UNCHANGED name
         ELSE IF ~mem
         THEN Break("Can't copy filename") /\ UNCHANGED name
         ELSE name' = <<Skip(l, 6)>> /\ UNCHANGED <<pc, why>>
    /\ UNCHANGED <<unverified, doneBytes, progress, stanzas, hashed, matched,
                   stray>>

\* Continuing a long name. With name == NULL the code logs and goes on to
\* asprintf("%s%s", NULL, tail): the C library prints "(null)" or faults.
ContinuationLine(l) ==
    /\ \E mem \in BOOLEAN, faults \in BOOLEAN :
         IF name = <<>> /\ faults
         THEN pc' = "crashed" /\ why' = "Unexpected continuation" /\ UNCHANGED name
         ELSE IF ~mem
         THEN Break("Can't append continuation") /\ UNCHANGED name
         ELSE /\ name' = <<(IF name = <<>> THEN "(null)" ELSE name[1]) \o Skip(l, 1)>>
              /\ UNCHANGED <<pc, why>>
    /\ UNCHANGED <<unverified, doneBytes, progress, stanzas, hashed, matched,
                   stray>>

\* "Digest:" supplying a hash code for the current stanza
DigestLine(l) ==
    LET base64 == Skip(l, 13)
        entry == mzFindZipEntry(name[1])
        refused == RefusedStanza(entry, unverified)
        got == b64_pton(base64)
        fed == updateHash(doneBytes, totalBytes, Pieces(entry))
    IN IF name = <<>>
       THEN /\ Break("Unexpected digest")
            /\ UNCHANGED <<name, unverified, doneBytes, progress, stanzas,
                           hashed, matched, stray>>
       ELSE /\ stanzas' = IF entry = 0 THEN stanzas
                          ELSE [stanzas EXCEPT ![entry] = @ + 1]
            /\ stray' = (stray \/ entry = 0 \/ ~archive[entry].intact
                               \/ ~unverified[entry])
            /\ IF refused # "ok"
               THEN /\ Break(refused)
                    /\ UNCHANGED <<name, unverified, doneBytes, progress,
                                   hashed, matched>>
               ELSE IF got.n # SHA_DIGEST_SIZE
               THEN /\ Break("Invalid base64")
                    /\ UNCHANGED <<name, unverified, doneBytes, progress,
                                   hashed, matched>>
               ELSE /\ hashed' = [hashed EXCEPT ![entry] = @ + 1]
                    /\ doneBytes' = fed.done
                    /\ progress' = progress \o fed.reports
                    /\ IF ~archive[entry].readable
                          \/ ~SameDigest(got.bytes, archive[entry].hash)
                       THEN /\ Break("Wrong digest")
                            /\ UNCHANGED <<name, unverified, matched>>
                       ELSE /\ unverified' = [unverified EXCEPT ![entry] = FALSE]
                            /\ matched' = [matched EXCEPT ![entry] = @ \cup {got.bytes}]
                            /\ name' = <<>>
                            /\ UNCHANGED <<pc, why>>

\* One pass of the loop over the manifest's lines: strtok_r hands out the
\* next line, or NULL at the end of the manifest. The lines are drawn as the
\* loop reads them, MaxLines at most.
VA_Line ==
    /\ pc = "lines"
    /\ \/ /\ line' = <<>>
          /\ pc' = "finish"
          /\ UNCHANGED <<why, nLines, name, unverified, doneBytes, progress,
                         stanzas, hashed, matched, stray>>
       \/ /\ nLines < MaxLines
          /\ \E l \in ManifestLines :
               /\ line' = <<l>>
               /\ nLines' = nLines + 1
               /\ IF strncasecmp0(l, "Name: ", 6) THEN NameLine(l)
                  ELSE IF strncasecmp0(l, " ", 1) THEN ContinuationLine(l)
                  ELSE IF strncasecmp0(l, "SHA1-Digest: ", 13) THEN DigestLine(l)
                  ELSE UNCHANGED <<pc, why, name, unverified, doneBytes,
                                   progress, stanzas, hashed, matched, stray>>
    /\ UNCHANGED <<archive, keys, result, sfEntry, mfEntry, marked, totalBytes>>
    /\ UNCHANGED <<file, f, fpos, eocd, buffer, comment_size,
                   signature_start, eocd_size, signed_len, so_far, frac,
                   ctx, shortRead, rsaOff>>

\* After the loop: free, look for a flag still set, return.
VA_Finish ==
    /\ pc = "finish"
    /\ pc' = "done"
    /\ result' = ArchiveVerdict(line, unverified)
    /\ why' = IF line # <<>> THEN why
              ELSE IF FirstUnverified(unverified) <= mzZipEntryCount
                   THEN "No digest for"
                   ELSE "Verified"
    /\ UNCHANGED <<archive, keys, progress, sfEntry, mfEntry, unverified,
                   marked, totalBytes, doneBytes, name, line, nLines, stanzas,
                   hashed, matched, stray>>
    /\ UNCHANGED <<file, f, fpos, eocd, buffer, comment_size,
                   signature_start, eocd_size, signed_len, so_far, frac,
                   ctx, shortRead, rsaOff>>

---------------------------------------------------------------------------
(* verify_jar_signature: the archives and key sets the call is run on *)

Unsigned == [key |-> 0, over |-> ""]

\* a data entry
Data(nm, len, intact, readable, hash) ==
    [name |-> nm, len |-> len, intact |-> intact, readable |-> readable,
     hash |-> hash, lines |-> <<>>, sig |-> Unsigned]

\* a signature block whose last RSANUMBYTES bytes are `key`'s signature of
\* the digest `over`
Rsa(nm, len, intact, key, over) ==
    [name |-> nm, len |-> len, intact |-> intact, readable |-> TRUE,
     hash |-> "hrsa", lines |-> <<>>, sig |-> [key |-> key, over |-> over]]

\* a signature file with these lines, of SHA-1 "hsf"
Sf(nm, intact, lines) ==
    [name |-> nm, len |-> 100, intact |-> intact, readable |-> TRUE,
     hash |-> "hsf", lines |-> lines, sig |-> Unsigned]

\* the manifest, of SHA-1 "hm"; its lines are drawn as verifyArchive reads them
Mf(intact, readable) ==
    [name |-> "META-INF/MANIFEST.MF", len |-> 200, intact |-> intact,
     readable |-> readable, hash |-> "hm", lines |-> <<>>, sig |-> Unsigned]

GoodSf == <<"Signature-Version: 1.0", "SHA1-Digest-Manifest: B64hm">>
GoodRsa == Rsa("META-INF/C.RSA", 1000, TRUE, 1, "hsf")

\* the META-INF entries of an archive
MetaInf ==
    {<<GoodRsa, Sf("META-INF/C.SF", TRUE, GoodSf), Mf(TRUE, TRUE)>>,
     <<Mf(TRUE, TRUE), Sf("META-INF/C.SF", TRUE, <<"sha1-digest-manifest: B64hm">>),
       Rsa("META-INF/C.RSA", RSANUMBYTES, TRUE, 1, "hsf")>>,
     <<Rsa("META-INF/B.RSA", 1000, TRUE, 3, "hsf"), Sf("META-INF/B.SF", TRUE, <<>>),
       GoodRsa, Sf("META-INF/C.SF", TRUE, GoodSf), Mf(TRUE, TRUE)>>,
     <<Rsa("META-INF/C.RSA", RSANUMBYTES - 1, TRUE, 1, "hsf"),
       Sf("META-INF/C.SF", TRUE, GoodSf), Mf(TRUE, TRUE)>>,
     <<Rsa("META-INF/C.rsa", 1000, TRUE, 1, "hsf"),
       Sf("META-INF/C.SF", TRUE, GoodSf), Mf(TRUE, TRUE)>>,
     <<Rsa("meta-inf/C.RSA", 1000, TRUE, 1, "hsf"),
       Sf("meta-inf/C.SF", TRUE, GoodSf), Mf(TRUE, TRUE)>>,
     <<GoodRsa, Mf(TRUE, TRUE)>>,
     <<Rsa("META-INF/C.RSA", 1000, FALSE, 1, "hsf"),
       Sf("META-INF/C.SF", TRUE, GoodSf), Mf(TRUE, TRUE)>>,
     <<Rsa("META-INF/C.RSA", 1000, TRUE, 3, "hsf"),
       Sf("META-INF/C.SF", TRUE, GoodSf), Mf(TRUE, TRUE)>>,
     <<Rsa("META-INF/C.RSA", 1000, TRUE, 1, "hother"),
       Sf("META-INF/C.SF", TRUE, GoodSf), Mf(TRUE, TRUE)>>,
     <<GoodRsa, Sf("META-INF/C.SF", FALSE, GoodSf), Mf(TRUE, TRUE)>>,
     <<GoodRsa, Sf("META-INF/C.SF", TRUE, <<"Signature-Version: 1.0">>), Mf(TRUE, TRUE)>>,
     <<GoodRsa, Sf("META-INF/C.SF", TRUE, <<"SHA1-Digest-Manifest: B64short",
                                           "SHA1-Digest-Manifest: B64hm">>),
       Mf(TRUE, TRUE)>>,
     <<GoodRsa, Sf("META-INF/C.SF", TRUE, <<"SHA1-Digest-Manifest: !">>), Mf(TRUE, TRUE)>>,
     <<GoodRsa, Sf("META-INF/C.SF", TRUE, <<"SHA1-Digest-Manifest: B64hz">>), Mf(TRUE, TRUE)>>,
     <<GoodRsa, Sf("META-INF/C.SF", TRUE, GoodSf)>>,
     <<GoodRsa, Sf("META-INF/C.SF", TRUE, GoodSf), Mf(TRUE, FALSE)>>,
     <<GoodRsa, Sf("META-INF/C.SF", TRUE, GoodSf), Mf(FALSE, TRUE)>>}

\* an uncompressed length of 1.5 GiB
Huge == 3 * 536870912

\* the other entries of an archive
DataEntries ==
    {<<Data("a", 10, TRUE, TRUE, "ha")>>,
     <<Data("a", 10, TRUE, TRUE, "ha"), Data("ab", 7, TRUE, TRUE, "hab")>>,
     <<Data("a", 10, TRUE, TRUE, "ha"), Data("d/", 0, TRUE, TRUE, "h0"),
       Data("META-INF/x.sf", 5, TRUE, TRUE, "hx")>>,
     <<Data("a", 10, FALSE, TRUE, "ha"), Data("ab", 7, TRUE, TRUE, "hab")>>,
     <<Data("a", 10, TRUE, TRUE, "ha"), Data("ab", 7, TRUE, FALSE, "hab")>>,
     <<Data("a", Huge, TRUE, TRUE, "ha"), Data("ab", Huge, TRUE, TRUE, "hab"),
       Data("c", Huge, TRUE, TRUE, "hc")>>}

Archives == {m \o d : m \in MetaInf, d \in DataEntries}

JarKeySets == {<<>>, <<2, 1>>}

FileIdle ==
    /\ file = [len |-> 0, foot |-> <<0, 0, 0, 0, 0, 0>>, marks |-> {},
               sig |-> [key |-> 0, at |-> 0, over |-> 0]]
    /\ f = FALSE
    /\ fpos = 0
    /\ eocd = FALSE
    /\ buffer = FALSE
    /\ comment_size = -1
    /\ signature_start = -1
    /\ eocd_size = 0
    /\ signed_len = 0
    /\ so_far = 0
    /\ frac = -1
    /\ ctx = SHA_init
    /\ shortRead = FALSE
    /\ rsaOff = {}

InitJar ==
    /\ archive \in Archives
    /\ keys \in JarKeySets
    /\ pc = "sig"
    /\ result = "none"
    /\ why = "none"
    /\ progress = <<>>
    /\ sfEntry = 0
    /\ mfEntry = 0
    /\ unverified = <<>>
    /\ marked = <<>>
    /\ totalBytes = U32(0)
    /\ doneBytes = U32(0)
    /\ name = <<>>
    /\ line = <<>>
    /\ nLines = 0
    /\ stanzas = <<>>
    /\ hashed = <<>>
    /\ matched = <<>>
    /\ stray = FALSE
    /\ FileIdle

NextJar ==
    \/ VJ_VerifySignature
    \/ VJ_VerifyManifest
    \/ VA_Start
    \/ VA_Line
    \/ VA_Finish

SpecJar == InitJar /\ [][NextJar]_vars

---------------------------------------------------------------------------
(* verify_jar_signature: what the claims speak of, read off the archive *)

Entries == 1..Len(archive)

EndsWith(s, t) == Len(s) >= Len(t) /\ SubSeq(s, Len(s) - Len(t) + 1, Len(s)) = t

StartsWith(s, t) == Len(s) >= Len(t) /\ SubSeq(s, 1, Len(t)) = t

\* an entry the manifest need not cover: the manifest itself, a zero-length
\* directory, a META-INF/ entry ending in .RSA or .SF (in either case)
Exempt(i) ==
    \/ archive[i].name = "META-INF/MANIFEST.MF"
    \/ archive[i].len = 0 /\ EndsWith(archive[i].name, "/")
    \/ /\ StartsWith(LowerStr(archive[i].name), "meta-inf/")
       /\ \/ EndsWith(LowerStr(archive[i].name), ".rsa")
          \/ EndsWith(LowerStr(archive[i].name), ".sf")

Accepted == pc = "done" /\ result = "true"

(* C1: when verify_jar_signature returns true, every entry that is not
   exempt was named by exactly one manifest stanza, was hashed, and its
   SHA-1 equalled the stanza's decoded digest; every flag set at the start
   of verifyArchive is clear. *)
C1_CoverageComplete ==
    Accepted =>
        /\ \A i \in Entries :
              ~Exempt(i) => /\ stanzas[i] = 1
                            /\ hashed[i] = 1
                            /\ matched[i] = {archive[i].hash}
        /\ \A i \in Entries : marked[i] <=> ~Exempt(i)
        /\ \A i \in Entries : marked[i] => ~unverified[i]

\* an archive with two entries to cover, and exempt ones, is accepted
C1_Witness ==
    /\ Accepted
    /\ \E i, j \in Entries :
          i # j /\ ~Exempt(i) /\ ~Exempt(j) /\ stanzas[i] = 1 /\ stanzas[j] = 1
    /\ \E i \in Entries : Exempt(i) /\ stanzas[i] = 0

(* C3: verify_jar_signature returns true only if some entry X.RSA (under
   META-INF/, ending .RSA, at least RSANUMBYTES long) has a sibling X.SF, a
   key of the key set verifies the signature in X.RSA against SHA1(X.SF),
   and the first SHA1-Digest-Manifest line of X.SF decodes to 20 bytes
   equal to SHA1(META-INF/MANIFEST.MF); so never with an empty key set, a
   missing or undecodable header or a missing MANIFEST.MF. *)
C3_SignedManifestChain ==
    Accepted =>
        /\ Len(keys) > 0
        /\ \E i, j, m \in Entries :
              /\ StartsWith(archive[i].name, "META-INF/")
              /\ EndsWith(archive[i].name, ".RSA")
              /\ archive[i].len >= 256
              /\ archive[j].name =
                    SubSeq(archive[i].name, 1, Len(archive[i].name) - 4) \o ".SF"
              /\ \E k \in 1..Len(keys) :
                    /\ archive[i].sig.key = keys[k]
                    /\ archive[i].sig.over = archive[j].hash
              /\ archive[m].name = "META-INF/MANIFEST.MF"
              /\ \E n \in 1..Len(archive[j].lines) :
                    /\ StartsWith(LowerStr(archive[j].lines[n]), "sha1-digest-manifest: ")
                    /\ \A e \in 1..(n - 1) :
                          ~StartsWith(LowerStr(archive[j].lines[e]), "sha1-digest-manifest: ")
                    /\ b64_pton(Skip(archive[j].lines[n], 22)).n = 20
                    /\ b64_pton(Skip(archive[j].lines[n], 22)).bytes = archive[m].hash

\* accepted on the second signature block, the first one being another's
C3_Witness ==
    /\ Accepted
    /\ archive[1].name = "META-INF/B.RSA"
    /\ archive[sfEntry].name = "META-INF/C.SF"

(* C6: when the manifest has been read to its last line and a Name is still
   pending without its SHA1-Digest line, verifyArchive returns false. *)
C6_PendingNameFails ==
    (pc = "done" /\ mfEntry # 0 /\ line = <<>> /\ name # <<>>)
        => result = "false"

(* C7: a SHA1-Digest line whose pending name resolves to no entry, to an
   entry that is not intact or to one whose flag is clear makes
   verify_jar_signature return false; no entry is matched by two stanzas
   and no stanza names an exempt entry. *)
C7_StrayStanzaFails ==
    pc = "done" =>
        /\ stray => result = "false"
        /\ result = "true" =>
              \A i \in Entries :
                 /\ stanzas[i] <= 1
                 /\ Exempt(i) => stanzas[i] = 0

\* a second stanza for an entry already matched is turned down
C7_Witness ==
    /\ pc = "done"
    /\ result = "false"
    /\ stray
    /\ why = "Unexpected file"
    /\ \E i \in Entries : stanzas[i] = 2 /\ ~Exempt(i)

(* C9: the values passed to ui_set_progress during a call never decrease
   and lie in [0, 1]: doneBytes never exceeds totalBytes. *)
C9_MonotoneProgress ==
    \A k \in 1..Len(progress) :
        /\ LeqU32(progress[k][1], progress[k][2])
        /\ k > 1 => LeqU32(progress[k - 1][1], progress[k][1])

---------------------------------------------------------------------------
(* verify_file: what is still held when the call returns *)

(* C11: on every exit path of verify_file, success or failure, the file
   opened by the call is closed and the eocd buffer and the hashing buffer
   it allocated have been freed. *)
C11_ReleasedOnReturn ==
    pc = "done" => (~f /\ ~eocd /\ ~buffer)

===========================================================================
